---- MODULE Spec2Model ----
(***************************************************************************)
(* Model of scripts/redfin_tracker.py: the price extraction chain          *)
(* (extract_price), one scrape attempt (run_scrape), the sheet update      *)
(* (update_google_sheet) and the retry loop with the local backup (main).  *)
(*                                                                         *)
(* Text and bytes are sequences of chunks.  A chunk is a fixed run of      *)
(* bytes that the code's searches treat as a unit:                         *)
(*   "ABP"     data-rf-test-id="abp-price"     (holds the marker token)    *)
(*   "MARK"    data-rf-test-id                 (the marker token alone)    *)
(*   "EST"     RedfinEstimateValueHeader                                   *)
(*   "SPT"     "sectionPreviewText":                                       *)
(*   "GT" >    "DOL" $    "BSL" \    "QUOTE" "    "WS" one blank           *)
(*   "0" "1" "2" digits   "," the thousands separator                      *)
(*   "captcha" "CAPTCHA" "verify" "Verify"   the challenge words           *)
(*   "CRLF2"   \r\n\r\n   "DD" --   "B" the boundary token of the response *)
(*   "PAD"     481 bytes of filler text   "X" one byte of filler text      *)
(*   "BAD"     one byte that is not valid UTF-8                            *)
(*   "TODAY"   today's date as DD-MM-YYYY   "OTHER" another date           *)
(*   "T"       one tick of the clock in a timestamp                        *)
(***************************************************************************)
EXTENDS Integers, Sequences, FiniteSets, TLC

VARIABLES pc, attempt, price_str, wait_time, response, outcomes, events,
          html_content, calls, history, history0, sheet_call, runs

(* history    the content of redfin_price_history.csv: None while the file  *)
(*            does not exist, else its rows                                 *)
(* history0   the content of the file when the current run of main began    *)
(* sheet_call what update_google_sheet met and did in the current run       *)
(* runs       the result of every finished run of main, in run order: None  *)
(*            for a failed run, else the price string it ended with         *)
vars == <<pc, attempt, price_str, wait_time, response, outcomes, events,
          html_content, calls, history, history0, sheet_call, runs>>

(* The variables outside one run of the retry loop *)
store == <<history, history0, sheet_call, runs>>

-----------------------------------------------------------------------------
(* Optional values: Python's None and a present value. *)
None == <<>>

Some(v) == <<v>>

(* Python truthiness of an optional string: None and "" are false. *)
Truthy(p) == p # None /\ p[1] # <<>>

Min(S) == CHOOSE x \in S : \A y \in S : x <= y

-----------------------------------------------------------------------------
(* extract_price *)

IsDigitComma(c) == c \in {"0", "1", "2", ","}

(* The capture ([\d,]+): the longest run of digits and commas from s[k]. *)
RECURSIVE Run(_, _)
Run(s, k) ==
  IF k <= Len(s) /\ IsDigitComma(s[k]) THEN <<s[k]>> \o Run(s, k + 1) ELSE <<>>

(* Positions k of a "$" directly followed by a digit or comma, after j. *)
DollarAfter(s, j) ==
  {k \in (j + 1)..(Len(s) - 1) : s[k] = "DOL" /\ IsDigitComma(s[k + 1])}

(* re.search(r'<anchor>[^>]*>.*?\$([\d,]+)', s, re.DOTALL): the leftmost     *)
(* anchor from which the pattern matches; [^>]* stops at the first ">"       *)
(* after the anchor; .*? stops at the first "$" that a digit or comma        *)
(* follows; group(1) is the run of digits and commas after that "$".         *)
TagStarts(s, anchor) ==
  {i \in 1..Len(s) :
     /\ s[i] = anchor
     /\ \E j \in (i + 1)..Len(s) :
          /\ s[j] = "GT"
          /\ \A m \in (i + 1)..(j - 1) : s[m] # "GT"
          /\ DollarAfter(s, j) # {}}

TagSearch(s, anchor) ==
  IF TagStarts(s, anchor) = {} THEN None
  ELSE LET i == Min(TagStarts(s, anchor))
           j == Min({m \in (i + 1)..Len(s) : s[m] = "GT"})
           k == Min(DollarAfter(s, j))
       IN  Some(Run(s, k + 1))

(* The end of \s* from position p: the first position that holds no blank. *)
RECURSIVE SkipWs(_, _)
SkipWs(s, p) == IF p <= Len(s) /\ s[p] = "WS" THEN SkipWs(s, p + 1) ELSE p

(* The position of the "$" of "sectionPreviewText":\s*"\\?\$ started at i,  *)
(* or 0 when the pattern does not match there.                              *)
JsonDollar(s, i) ==
  LET q == SkipWs(s, i + 1)
      d == IF q + 1 <= Len(s) /\ s[q + 1] = "BSL" THEN q + 2 ELSE q + 1
  IN  IF /\ s[i] = "SPT"
         /\ q <= Len(s) /\ s[q] = "QUOTE"
         /\ d + 1 <= Len(s) /\ s[d] = "DOL" /\ IsDigitComma(s[d + 1])
      THEN d ELSE 0

JsonSearch(s) ==
  LET starts == {i \in 1..Len(s) : JsonDollar(s, i) # 0}
  IN  IF starts = {} THEN None
      ELSE Some(Run(s, JsonDollar(s, Min(starts)) + 1))

abp_match(s) == TagSearch(s, "ABP")

esth_match(s) == TagSearch(s, "EST")

json_match(s) == JsonSearch(s)

extract_price_swapped(s) ==
  IF json_match(s) # None THEN json_match(s)
  ELSE IF esth_match(s) # None THEN esth_match(s)
  ELSE IF abp_match(s) # None THEN abp_match(s)
  ELSE None

extract_price(s) ==
  IF abp_match(s) # None THEN abp_match(s)
  ELSE IF esth_match(s) # None THEN esth_match(s)
  ELSE IF json_match(s) # None THEN json_match(s)
  ELSE None

-----------------------------------------------------------------------------
(* Bytes and text *)

(* len() of one chunk, in bytes. *)
ChunkLen(c) ==
  CASE c = "PAD" -> 481
    [] c = "ABP" -> 27
    [] c = "EST" -> 25
    [] c = "SPT" -> 21
    [] c = "MARK" -> 15
    [] c \in {"captcha", "CAPTCHA"} -> 7
    [] c \in {"verify", "Verify"} -> 6
    [] c = "CRLF2" -> 4
    [] c = "DD" -> 2
    [] OTHER -> 1

RECURSIVE ByteLen(_)
ByteLen(s) == IF s = <<>> THEN 0 ELSE ChunkLen(Head(s)) + ByteLen(Tail(s))

(* bytes.decode('utf-8', errors='ignore'): invalid bytes are dropped. *)
Decode(s) == SelectSeq(s, LAMBDA c : c # "BAD")

(* len() of decoded text: every chunk that survives decoding is ASCII. *)
TextLen(t) == ByteLen(t)

(* str.lower(), chunk by chunk; only the challenge words have upper case   *)
(* variants among the chunks.                                              *)
LowerChunk(c) ==
  CASE c = "CAPTCHA" -> "captcha"
    [] c = "Verify" -> "verify"
    [] OTHER -> c

Lower(s) == [i \in 1..Len(s) |-> LowerChunk(s[i])]

(* needle in text, for a needle of one chunk *)
Contains(s, c) == \E i \in 1..Len(s) : s[i] = c

(* "data-rf-test-id" in body: the token alone or inside the abp-price id *)
HasMarker(body) == Contains(body, "MARK") \/ Contains(body, "ABP")

(* "captcha" in body.lower() and "verify" in body.lower() *)
IsCaptchaBody(body) ==
  Contains(Lower(body), "captcha") /\ Contains(Lower(body), "verify")

(* bytes.find(sep): the first position where sep starts, -1 when absent *)
Find(s, sep) ==
  LET at == {i \in 1..(Len(s) - Len(sep) + 1) :
               SubSeq(s, i, i + Len(sep) - 1) = sep}
  IN  IF at = {} THEN -1 ELSE Min(at)

(* bytes.split(sep): the pieces between the occurrences of sep, left to right *)
RECURSIVE Split(_, _)
Split(s, sep) ==
  LET i == Find(s, sep)
  IN  IF i = -1 THEN <<s>>
      ELSE <<SubSeq(s, 1, i - 1)>> \o Split(SubSeq(s, i + Len(sep), Len(s)), sep)

-----------------------------------------------------------------------------
(* run_scrape *)

MinPartBytes == 500

SkippedNoSize(part) == Find(part, <<"CRLF2">>) = -1

(* The part is skipped by the loop: too short, or no blank line. *)
Skipped(part) == ByteLen(part) < MinPartBytes \/ Find(part, <<"CRLF2">>) = -1

(* part[header_end+4:].decode('utf-8', errors='ignore') *)
PartBody(part) ==
  Decode(SubSeq(part, Find(part, <<"CRLF2">>) + 1, Len(part)))

BetterAnyLonger(body, best) == TextLen(body) > TextLen(best)

BetterOrTie(body, best) == HasMarker(body) /\ TextLen(body) >= TextLen(best)

(* if "data-rf-test-id" in body and len(body) > len(html_content) *)
Better(body, best) == HasMarker(body) /\ TextLen(body) > TextLen(best)

(* The for loop over the parts from index i with html_content = best:      *)
(* the fragment it ends with, or blocked when it returned at a challenge.  *)
RECURSIVE ScanParts(_, _, _)
ScanParts(parts, i, best) ==
  IF i > Len(parts) THEN [blocked |-> FALSE, html |-> best]
  ELSE IF Skipped(parts[i]) THEN ScanParts(parts, i + 1, best)
  ELSE LET body == PartBody(parts[i])
       IN  IF IsCaptchaBody(body) THEN [blocked |-> TRUE, html |-> best]
           ELSE IF Better(body, best)
                THEN ScanParts(parts, i + 1, body)
                ELSE ScanParts(parts, i + 1, best)

(* 'captcha' in response.headers.get('x-amzn-waf-action', '').lower() *)
is_waf_captcha(r) == Contains(Lower(r.waf), "captcha")

(* re.search of "boundary=" and the rest of the line in content_type:      *)
(* None, or group(1), the rest of the header after "boundary=".            *)
boundary_match(r) == r.ctype

(* response.content.split(f"--{boundary}".encode()) *)
PartsOf(r) == Split(r.content, <<"DD">> \o boundary_match(r)[1])

OnExceptionEscapes ==
  [outcome |-> "Raised", price |-> None, html |-> <<>>]

(* except Exception as e: print(...); return None *)
OnException ==
  [outcome |-> "TransientError", price |-> None, html |-> <<>>]

(* One scrape attempt on the fetch result r: the outcome, the returned     *)
(* value and the fragment held in html_content when it returned.           *)
RunScrape(r) ==
  IF r.error = "post" THEN OnException
  ELSE IF is_waf_captcha(r) THEN
    [outcome |-> "Blocked", price |-> None, html |-> <<>>]
  ELSE IF boundary_match(r) = None THEN
    [outcome |-> "NoContent", price |-> None, html |-> <<>>]
  ELSE IF r.error = "read" THEN OnException
  ELSE LET scan == ScanParts(PartsOf(r), 1, <<>>)
       IN  IF scan.blocked THEN
             [outcome |-> "Blocked", price |-> None, html |-> scan.html]
           ELSE IF scan.html = <<>> THEN
             [outcome |-> "NoContent", price |-> None, html |-> <<>>]
           ELSE IF extract_price(scan.html) = None THEN
             [outcome |-> "NoMatch", price |-> None, html |-> scan.html]
           ELSE
             [outcome |-> "Success", price |-> extract_price(scan.html),
              html |-> scan.html]

-----------------------------------------------------------------------------
(* Inputs *)

MaxParts == 3

MaxPieces == 4

MaxCalls == 2

(* All sequences of 1..n elements of S *)
RECURSIVE SeqsUpTo(_, _)
SeqsUpTo(S, n) ==
  IF n = 0 THEN {}
  ELSE {<<x>> : x \in S} \cup SeqsUpTo(S, n - 1)
       \cup {Append(q, x) : q \in SeqsUpTo(S, n - 1), x \in S}

RECURSIVE Concat(_)
Concat(ss) == IF ss = <<>> THEN <<>> ELSE Head(ss) \o Concat(Tail(ss))

(* The segments joined by the delimiter line --B *)
RECURSIVE Join(_)
Join(segs) ==
  IF Len(segs) = 1 THEN segs[1]
  ELSE segs[1] \o <<"DD", "B">> \o Join(Tail(segs))

(* Segments of a response body: what stands between two delimiter lines. *)
Segments ==
  { <<>>,                                             \* empty preamble
    <<"DD">>,                                         \* after the closing --B
    <<"PAD", "CRLF2", "ABP", "GT", "DOL", "1">>,      \* page, $1, 515 bytes
    <<"PAD", "CRLF2", "ABP", "GT", "DOL", "2", "BAD", "BAD">>,
                                 \* page, $2, same text length, 517 bytes
    <<"PAD", "CRLF2", "EST", "GT", "DOL", "2", ",", "0", "MARK">>,
                                                      \* longer page, $2,0
    <<"CRLF2", "ABP", "GT", "DOL", "2">>,             \* page of 34 bytes
    <<"PAD", "CRLF2", "X", "X", "CAPTCHA", "verify">>, \* challenge, 500 bytes
    <<"verify", "captcha">>,                          \* challenge, 13 bytes
    <<"PAD", "PAD", "ABP", "GT", "DOL", "1">>,        \* page, no blank line
    <<"PAD", "CRLF2", "SPT", "QUOTE", "DOL", "1">>,   \* JSON only, no marker
    <<"PAD", "CRLF2", "MARK">> }                      \* marker, no price

(* The bodies of 1..n segments *)
Bodies(n) == {Join(segs) : segs \in SeqsUpTo(Segments, n)}

Resp(st, waf, ct, body, err) ==
  [status |-> st, waf |-> waf, ctype |-> ct, content |-> body, error |-> err]

(* What requests.post gives: a response, whose body may fail to arrive, or *)
(* an exception (connection refused, timeout).                             *)
Responses(n) ==
  {Resp(st, waf, ct, body, "none") :
     st \in {200, 500}, waf \in {<<>>, <<"CAPTCHA">>},
     ct \in {None, Some(<<>>), Some(<<"B">>)}, body \in Bodies(n)}

FetchErrors ==
  {Resp(0, <<>>, None, <<>>, "post")}
  \cup {Resp(200, waf, ct, <<>>, "read") :
          waf \in {<<>>, <<"CAPTCHA">>}, ct \in {None, Some(<<"B">>)}}

(* Pieces of a fragment handed to extract_price *)
Pieces ==
  { <<"ABP", "GT">>, <<"EST", "GT">>, <<"SPT", "QUOTE">>,
    <<"SPT", "WS", "QUOTE", "BSL">>, <<"DOL", "1">>, <<"DOL", "2", ",", "0">>,
    <<"DOL">>, <<"GT">>, <<"X">>, <<"ABP">>, <<"DOL", ",">> }

(* The fragments of 0..n pieces *)
Fragments(n) == {<<>>} \cup {Concat(ps) : ps \in SeqsUpTo(Pieces, n)}

Page(seg) == Join(<<<<>>, seg, <<"DD">>>>)

(* The fetch results the retry loop is run against *)
RunResponses ==
  { Resp(200, <<>>, Some(<<"B">>),
         Page(<<"PAD", "CRLF2", "ABP", "GT", "DOL", "1">>), "none"),
    Resp(200, <<>>, Some(<<"B">>),
         Page(<<"PAD", "CRLF2", "EST", "GT", "DOL", "2", ",", "0", "MARK">>),
         "none"),
    Resp(500, <<>>, Some(<<"B">>),
         Page(<<"PAD", "CRLF2", "ABP", "GT", "DOL", "2">>), "none"),
    Resp(200, <<>>, Some(<<"B">>),
         Page(<<"PAD", "CRLF2", "BAD", "ABP", "GT", "DOL", "2", "BAD">>),
         "none"),
    Resp(200, <<"CAPTCHA">>, Some(<<"B">>),
         Page(<<"PAD", "CRLF2", "ABP", "GT", "DOL", "1">>), "none"),
    Resp(200, <<>>, Some(<<"B">>),
         Page(<<"PAD", "CRLF2", "X", "X", "CAPTCHA", "verify">>), "none"),
    Resp(200, <<>>, None, <<"verify", "captcha">>, "none"),
    Resp(200, <<>>, Some(<<"B">>), Page(<<"PAD", "CRLF2", "PAD">>), "none"),
    Resp(200, <<>>, Some(<<"B">>), Page(<<"PAD", "CRLF2", "MARK">>), "none"),
    Resp(200, <<>>, Some(<<"B">>), <<>>, "read"),
    Resp(0, <<>>, None, <<>>, "post") }

NoResponse == Resp(0, <<>>, None, <<>>, "none")

-----------------------------------------------------------------------------
(* main *)

max_retries == 3

WaitMin == 20

WaitMax == 60

WaitTimesFromZero == 0..WaitMax

(* random.randint(20, 60): both ends included *)
WaitTimes == WaitMin..WaitMax

MoreAttemptsOff(a) == a + 1 <= max_retries

(* for attempt in range(max_retries): another iteration follows attempt a *)
MoreAttempts(a) == a + 1 < max_retries

BreakNever(p) == FALSE

(* if price_str: break *)
Break(p) == Truthy(p)

FailedAlwaysFalse(p) == FALSE

(* if not price_str *)
Failed(p) == ~Truthy(p)

(* f"{price_str}": the text of the value, "None" for None *)
PriceText(p) == IF p = None THEN <<"None">> ELSE p[1]

-----------------------------------------------------------------------------
(* update_google_sheet *)

(* Column A of the "Redfin" worksheet, top down.  "TODAY" is today's date  *)
(* as DD-MM-YYYY, "OTHER" another date, "X" other text.                    *)
ColumnAs ==
  { <<>>,
    << <<"X">>, <<"OTHER">> >>,
    << <<"X">>, <<"TODAY">> >>,
    << <<"X", "TODAY">>, <<"OTHER">>, <<"TODAY">> >> }

(* What a call meets: whether GOOGLE_SHEETS_CREDENTIALS is set, where an   *)
(* exception is raised ("open": parsing the credentials, authorizing or    *)
(* opening the sheet; "update": in update_cell), and column A.             *)
SheetEnvs ==
  {[creds |-> FALSE, fault |-> "none", col_a |-> <<>>],
   [creds |-> TRUE, fault |-> "open", col_a |-> <<>>]}
  \cup {[creds |-> TRUE, fault |-> f, col_a |-> c] :
          f \in {"none", "update"}, c \in ColumnAs}

(* Column C as the call finds it: one empty cell per row *)
BlankColumn(col_a) == [i \in 1..Len(col_a) |-> <<>>]

SheetResult(res, env, col_c) ==
  [result |-> res, creds |-> env.creds, fault |-> env.fault,
   col_a |-> env.col_a, col_c |-> col_c]

NotCalled ==
  [result |-> "not_called", creds |-> FALSE, fault |-> "none",
   col_a |-> <<>>, col_c |-> <<>>]

(* for i, val in enumerate(col_a): if today_str in val: row_index = i + 1; *)
(* break -- the first row whose cell holds today's date, -1 without one    *)
RowIndex(col_a) ==
  LET hits == {i \in 1..Len(col_a) : Contains(col_a[i], "TODAY")}
  IN  IF hits = {} THEN -1 ELSE Min(hits)

OnSheetExceptionEscapes == "raised"

(* except Exception as e: print(f"Error updating Google Sheet: {e}") *)
OnSheetException == "error"

update_google_sheet(p, env) ==
  IF ~env.creds THEN SheetResult("skipped", env, BlankColumn(env.col_a))
  ELSE IF env.fault = "open"
    THEN SheetResult(OnSheetException, env, BlankColumn(env.col_a))
  ELSE IF RowIndex(env.col_a) # -1
    THEN IF env.fault = "update"
         THEN SheetResult(OnSheetException, env, BlankColumn(env.col_a))
         ELSE SheetResult("updated", env,
                [BlankColumn(env.col_a) EXCEPT
                   ![RowIndex(env.col_a)] = <<"DOL">> \o PriceText(p)])
  ELSE SheetResult("norow", env, BlankColumn(env.col_a))

-----------------------------------------------------------------------------
(* The local backup *)

(* A row of price_history.csv is a sequence of cells, a cell the chunks of  *)
(* its text.                                                               *)
HistoryHeader == << <<"Timestamp">>, <<"Price">>, <<"URL">> >>

(* price_str.replace(",", "") *)
StripCommas(str) == SelectSeq(str, LAMBDA c : c # ",")

(* The row of the run that ends at time ts with the price string str *)
HistoryRow(ts, str) == <<ts, StripCommas(str), <<"REDFIN_URL">>>>

AppendHistoryAlwaysHeader(h, row) ==
  IF h = None THEN Some(<<HistoryHeader, row>>)
  ELSE Some(h[1] \o <<HistoryHeader, row>>)

(* open(HISTORY_FILE, "a"): the header row if the file did not exist, then *)
(* the row                                                                 *)
AppendHistory(h, row) ==
  IF h = None THEN Some(<<HistoryHeader, row>>) ELSE Some(Append(h[1], row))

(* The file left by one earlier successful run *)
EarlierHistory ==
  Some(<<HistoryHeader, << <<>>, <<"2">>, <<"REDFIN_URL">> >> >>)

(* datetime.datetime.now() as text: one "T" for each run so far, this one  *)
(* included, so that later runs have later times                           *)
Now == [i \in 1..(Len(runs) + 1) |-> "T"]

-----------------------------------------------------------------------------
(* main *)

InitLoop ==
  /\ pc = "fetch"
  /\ attempt = 0
  /\ price_str = None
  /\ wait_time = 0
  /\ response = NoResponse
  /\ outcomes = <<>>
  /\ events = <<>>
  /\ html_content = <<>>
  /\ calls = 0
  /\ sheet_call = NotCalled
  /\ runs = <<>>

Init ==
  /\ InitLoop
  /\ history \in {None, EarlierHistory}
  /\ history0 = history

BackoffNeverEnds ==
  /\ pc = "backoff"
  /\ UNCHANGED vars

(* if attempt > 0: wait_time = random.randint(20, 60); time.sleep(wait_time) *)
Backoff ==
  /\ pc = "backoff"
  /\ \E w \in WaitTimes : wait_time' = w
  /\ events' = Append(events, "wait")
  /\ pc' = "fetch"
  /\ UNCHANGED <<attempt, price_str, response, outcomes, html_content, calls>>
  /\ UNCHANGED store

(* price_str = run_scrape(); if price_str: break; then the next iteration  *)
(* of range(max_retries), or the end of the loop.  An exception that       *)
(* leaves run_scrape leaves main too.  wait_time is the sleep before this  *)
(* fetch: nothing reads it once the sleep has ended, and the model holds   *)
(* it only until the fetch is dispatched.                                  *)
Scrape ==
  /\ pc = "fetch"
  /\ \E r \in RunResponses :
       LET res == RunScrape(r)
       IN  /\ response' = r
           /\ html_content' = res.html
           /\ outcomes' = Append(outcomes, res.outcome)
           /\ events' = Append(events, "fetch")
           /\ IF res.outcome = "Raised"
              THEN pc' = "crashed" /\ attempt' = attempt
                   /\ price_str' = price_str
              ELSE /\ price_str' = res.price
                   /\ IF Break(res.price)
                      THEN pc' = "after_loop" /\ attempt' = attempt
                      ELSE IF MoreAttempts(attempt)
                           THEN pc' = "backoff" /\ attempt' = attempt + 1
                           ELSE pc' = "after_loop" /\ attempt' = attempt
  /\ wait_time' = 0
  /\ UNCHANGED calls
  /\ UNCHANGED store

(* if not price_str: print("Fatal: ..."); return *)
Fatal ==
  /\ pc = "after_loop"
  /\ Failed(price_str)
  /\ pc' = "failed"
  /\ runs' = Append(runs, None)
  /\ UNCHANGED <<attempt, price_str, wait_time, response, outcomes, events,
                 html_content, calls, history, history0, sheet_call>>

(* print("Success! ..."); update_google_sheet(price_str); then the local   *)
(* backup: price_str.replace raises on None, and an exception that leaves  *)
(* update_google_sheet leaves main before the backup.                      *)
Record ==
  /\ pc = "after_loop"
  /\ ~Failed(price_str)
  /\ \E env \in SheetEnvs :
       LET call == update_google_sheet(price_str, env)
       IN  /\ sheet_call' = call
           /\ IF call.result = "raised" \/ price_str = None
              THEN pc' = "crashed" /\ history' = history /\ runs' = runs
              ELSE /\ pc' = "saved"
                   /\ history' =
                        AppendHistory(history, HistoryRow(Now, price_str[1]))
                   /\ runs' = Append(runs, price_str)
  /\ UNCHANGED <<attempt, price_str, wait_time, response, outcomes, events,
                 html_content, calls, history0>>

Next == Backoff \/ Scrape \/ Fatal \/ Record

Spec == Init /\ [][Next]_vars

(* Every step of main that can be taken is taken in the end: a fetch       *)
(* returns or times out (timeout=60), a sleep ends, the rest is local.     *)
SpecLive == Spec /\ WF_vars(Backoff) /\ WF_vars(Scrape) /\ WF_vars(Fatal)
                 /\ WF_vars(Record)

-----------------------------------------------------------------------------
(* Runs of main one after the other, from no history file *)

MaxRuns == 2

InitRuns ==
  /\ InitLoop
  /\ history = None
  /\ history0 = None

(* if __name__ == "__main__": main() -- the next start of the script *)
NewRun ==
  /\ pc \in {"failed", "saved"}
  /\ Len(runs) < MaxRuns
  /\ pc' = "fetch"
  /\ attempt' = 0
  /\ price_str' = None
  /\ wait_time' = 0
  /\ response' = NoResponse
  /\ outcomes' = <<>>
  /\ events' = <<>>
  /\ html_content' = <<>>
  /\ sheet_call' = NotCalled
  /\ history0' = history
  /\ UNCHANGED <<calls, history, runs>>

NextRuns == Backoff \/ Scrape \/ Fatal \/ Record \/ NewRun

SpecRuns == InitRuns /\ [][NextRuns]_vars

-----------------------------------------------------------------------------
(* One scrape attempt on any fetch result *)

InitScrape ==
  /\ pc = "scrape_call"
  /\ response \in Responses(MaxParts) \cup FetchErrors
  /\ attempt = 0
  /\ price_str = None
  /\ wait_time = 0
  /\ outcomes = <<>>
  /\ events = <<>>
  /\ html_content = <<>>
  /\ calls = 0
  /\ history = None
  /\ history0 = None
  /\ sheet_call = NotCalled
  /\ runs = <<>>

ScrapeOnce ==
  /\ pc = "scrape_call"
  /\ LET res == RunScrape(response)
     IN  /\ price_str' = res.price
         /\ html_content' = res.html
         /\ outcomes' = <<res.outcome>>
  /\ pc' = "scrape_return"
  /\ UNCHANGED <<attempt, wait_time, response, events, calls>>
  /\ UNCHANGED store

NextScrape == ScrapeOnce

SpecScrape == InitScrape /\ [][NextScrape]_vars

-----------------------------------------------------------------------------
(* extract_price called on any fragment, repeatedly *)

InitExtract ==
  /\ pc = "extract_call"
  /\ html_content \in Fragments(MaxPieces)
  /\ response = NoResponse
  /\ attempt = 0
  /\ price_str = None
  /\ wait_time = 0
  /\ outcomes = <<>>
  /\ events = <<>>
  /\ calls = 0
  /\ history = None
  /\ history0 = None
  /\ sheet_call = NotCalled
  /\ runs = <<>>

ExtractCall ==
  /\ pc = "extract_call"
  /\ calls < MaxCalls
  /\ price_str' = extract_price(html_content)
  /\ calls' = calls + 1
  /\ UNCHANGED <<pc, attempt, wait_time, response, outcomes, events,
                 html_content>>
  /\ UNCHANGED store

NextExtract == ExtractCall

SpecExtract == InitExtract /\ [][NextExtract]_vars

-----------------------------------------------------------------------------
(* Properties of the retry loop, under Spec *)

Failures == {"Blocked", "NoContent", "NoMatch", "TransientError"}

AllFailed == \A k \in 1..Len(outcomes) : outcomes[k] \in Failures

LoopOver == pc \in {"after_loop", "failed", "saved"}

(* C1: a run whose attempts all end in a failure outcome performs exactly   *)
(* max_retries attempts: it is never past the loop with fewer, never makes  *)
(* more, no failure kind takes it out of the loop early, and past the loop  *)
(* it reports the failure and records nothing.                              *)
C1_RetryBound ==
  /\ Len(outcomes) <= max_retries
  /\ (AllFailed /\ LoopOver) => Len(outcomes) = max_retries
  /\ (AllFailed /\ Len(outcomes) < max_retries) => pc \in {"fetch", "backoff"}
  /\ (AllFailed /\ LoopOver) => (~Truthy(price_str) /\ pc # "saved")
  /\ pc = "failed" => (AllFailed /\ Len(outcomes) = max_retries)

C1_Witness ==
  /\ pc = "failed"
  /\ outcomes = <<"Blocked", "NoContent", "TransientError">>

(* C2: when attempt k is the first to end in Success it is the last attempt *)
(* of the run: the loop is over, the last event is that attempt's fetch (no *)
(* wait and no fetch follow it), and the run's result is the price that the *)
(* attempt extracted from its response.                                     *)
C2_ShortCircuit ==
  \A k \in 1..Len(outcomes) :
    outcomes[k] = "Success" =>
      /\ k = Len(outcomes)
      /\ pc \in {"after_loop", "saved"}
      /\ events[Len(events)] = "fetch"
      /\ Len(SelectSeq(events, LAMBDA e : e = "fetch")) = k
      /\ Truthy(price_str)
      /\ price_str = extract_price(html_content)
      /\ price_str = RunScrape(response).price

C2_Witness ==
  /\ pc = "saved"
  /\ outcomes = <<"NoMatch", "Success">>
  /\ price_str = Some(<<"2", ",", "0">>)

-----------------------------------------------------------------------------
(* Properties of one scrape attempt, under SpecScrape *)

Returned == pc = "scrape_return"

(* The whole body as text, whatever its parts *)
BodyText(r) == Lower(Decode(r.content))

HeaderSignal(r) == Contains(Lower(r.waf), "captcha")

BodySignal(r) ==
  Contains(BodyText(r), "captcha") /\ Contains(BodyText(r), "verify")

(* The body holds a part that the loop keeps, with the marker and a price *)
HasPricedPage(r) ==
  /\ r.ctype # None
  /\ \E i \in 1..Len(PartsOf(r)) :
       LET part == PartsOf(r)[i]
       IN  /\ ByteLen(part) >= MinPartBytes
           /\ Contains(part, "CRLF2")
           /\ HasMarker(PartBody(part))
           /\ extract_price(PartBody(part)) # None

(* The response is one the decoder gets to work on: it arrived whole with  *)
(* status 200 and names the boundary the body is cut with.                 *)
Regular(r) ==
  r.error = "none" /\ r.status = 200 /\ r.ctype = Some(<<"B">>)

(* C3: an attempt on a response that carries a bot-block signal, in the     *)
(* WAF header or anywhere in the body text, is Blocked and returns no       *)
(* price, even when a part of the response holds the marker and a price.    *)
C3_NoExtractionOnChallenge ==
  (Returned /\ Regular(response) /\ HasPricedPage(response)
     /\ (HeaderSignal(response) \/ BodySignal(response)))
  => (outcomes = <<"Blocked">> /\ price_str = None)

(* C4: an attempt whose response body text holds both "verify" and          *)
(* "captcha" ends Blocked, never NoMatch or NoContent, whatever the         *)
(* boundary, the sizes and the marker say.                                  *)
C4_BlockedBeforeDecoding ==
  (Returned /\ response.error = "none" /\ response.status = 200
     /\ BodySignal(response))
  => (outcomes[1] \notin {"NoMatch", "NoContent"} /\ outcomes[1] = "Blocked")

(* C7: an attempt whose response status is not 200 ends in TransientError   *)
(* and returns no price, also when the body is a multipart body with a      *)
(* marker part and a matching price.                                        *)
C7_Non200Fails ==
  (Returned /\ response.error = "none" /\ response.status # 200
     /\ response.ctype = Some(<<"B">>) /\ HasPricedPage(response)
     /\ ~HeaderSignal(response) /\ ~BodySignal(response))
  => (outcomes = <<"TransientError">> /\ price_str = None)

(* The loop over the parts runs: no header signal, a boundary, a body.     *)
Decoded(r) == r.error = "none" /\ ~is_waf_captcha(r) /\ r.ctype # None

(* What the spec calls discarding a segment: under the minimum viable size *)
(* or without a blank line.                                                *)
Discardable(part) ==
  ByteLen(part) < MinPartBytes \/ ~Contains(part, "CRLF2")

(* The text of a kept part: what follows its first blank line, decoded. *)
TextOf(part) ==
  LET at == Min({i \in 1..Len(part) : part[i] = "CRLF2"})
  IN  Decode(SubSeq(part, at + 1, Len(part)))

(* The positions of the kept parts whose text holds the marker token *)
MarkerParts(parts) ==
  {i \in 1..Len(parts) :
     ~Discardable(parts[i]) /\ HasMarker(TextOf(parts[i]))}

(* A kept part is a challenge page: the loop returns there. *)
ChallengePart(parts) ==
  \E i \in 1..Len(parts) :
    ~Discardable(parts[i]) /\ IsCaptchaBody(TextOf(parts[i]))

(* C6: when no part holds the marker token and the body splits into at     *)
(* least 3 parts, the 3rd part is the fragment and the extraction chain    *)
(* runs on it: the attempt is NoContent only if that part has no text.     *)
C6_PositionalFallback ==
  (Returned /\ Regular(response) /\ ~HeaderSignal(response)
     /\ ~BodySignal(response))
  => LET parts == PartsOf(response)
     IN  (/\ \A i \in 1..Len(parts) : ~HasMarker(parts[i])
          /\ Len(parts) >= 3
          /\ ~Discardable(parts[3]) /\ TextOf(parts[3]) # <<>>)
         => (/\ outcomes[1] # "NoContent"
             /\ html_content = TextOf(parts[3])
             /\ price_str = extract_price(TextOf(parts[3])))

(* C8: when two or more kept parts hold the marker token, the fragment is   *)
(* the text of the longest of them, and among those of equal greatest       *)
(* length the first in body order.                                          *)
C8_LongestMarkerPart ==
  (Returned /\ Decoded(response))
  => LET parts == PartsOf(response)
         M == MarkerParts(parts)
     IN  (Cardinality(M) >= 2 /\ ~ChallengePart(parts))
         => \E i \in M :
              /\ html_content = TextOf(parts[i])
              /\ \A j \in M : TextLen(TextOf(parts[j])) <= TextLen(html_content)
              /\ \A j \in M : TextLen(TextOf(parts[j])) = TextLen(html_content)
                                => i <= j

(* Two marker parts of equal text length and different text: the first won *)
C8_Witness ==
  /\ Returned /\ Decoded(response)
  /\ LET parts == PartsOf(response)
         M == MarkerParts(parts)
     IN  /\ ~ChallengePart(parts)
         /\ \E i, j \in M :
              /\ i < j
              /\ TextOf(parts[i]) # TextOf(parts[j])
              /\ TextLen(TextOf(parts[i])) = TextLen(TextOf(parts[j]))
              /\ html_content = TextOf(parts[i])
         /\ outcomes = <<"Success">>

(* C9: when exactly one kept part holds the marker token, that part is the  *)
(* fragment wherever it stands among the other parts (the bodies range over *)
(* every order of their parts).                                             *)
C9_SingleMarkerPart ==
  (Returned /\ Decoded(response))
  => LET parts == PartsOf(response)
         M == MarkerParts(parts)
     IN  (Cardinality(M) = 1 /\ ~ChallengePart(parts))
         => \A i \in M : html_content = TextOf(parts[i])

(* The marker part stands last, after a longer kept part without the marker *)
C9_Witness ==
  /\ Returned /\ Decoded(response)
  /\ LET parts == PartsOf(response)
         M == MarkerParts(parts)
     IN  /\ Cardinality(M) = 1 /\ ~ChallengePart(parts)
         /\ M = {Len(parts)}
         /\ \E j \in 1..Len(parts) :
              /\ ~Discardable(parts[j]) /\ j \notin M
              /\ TextLen(TextOf(parts[j])) > TextLen(TextOf(parts[Len(parts)]))
         /\ html_content = TextOf(parts[Len(parts)])

(* The parts that are not discardable, in body order *)
KeptParts(parts) == SelectSeq(parts, LAMBDA q : ~Discardable(q))

(* C10: a segment under 500 bytes or without a blank line is never the      *)
(* fragment and has no influence on the attempt: the fragment is the text   *)
(* of a kept part, and fragment, outcome and price are those of the same    *)
(* body with every such segment removed.                                    *)
C10_MinimumViableSize ==
  (Returned /\ Decoded(response))
  => LET parts == PartsOf(response)
         kept == KeptParts(parts)
         scan == ScanParts(kept, 1, <<>>)
     IN  /\ html_content # <<>>
               => \E i \in 1..Len(kept) : html_content = TextOf(kept[i])
         /\ html_content = scan.html
         /\ (outcomes[1] = "Blocked") = scan.blocked
         /\ (\A i \in 1..Len(parts) : Discardable(parts[i]))
               => (html_content = <<>> /\ outcomes[1] = "NoContent")

(* A segment of under 500 bytes holds the marker and a price of its own,   *)
(* and the fragment is another, kept part.                                 *)
C10_Witness ==
  /\ Returned /\ Decoded(response)
  /\ LET parts == PartsOf(response)
     IN  \E i \in 1..Len(parts) :
           /\ ByteLen(parts[i]) < MinPartBytes
           /\ Contains(parts[i], "CRLF2")
           /\ extract_price(TextOf(parts[i])) # None
           /\ extract_price(TextOf(parts[i])) # price_str
           /\ HasMarker(TextOf(parts[i]))
  /\ outcomes = <<"Success">>

-----------------------------------------------------------------------------
(* Properties of extract_price, under SpecExtract *)

(* C5: extract_price returns the capture of the first matcher that matches  *)
(* in the order primary (abp-price), secondary (RedfinEstimateValueHeader), *)
(* tertiary (sectionPreviewText), and None when none matches; every call on *)
(* the same fragment returns this same value.                               *)
C5_ExtractionPriority ==
  calls >= 1 =>
    LET p1 == abp_match(html_content)
        p2 == esth_match(html_content)
        p3 == json_match(html_content)
    IN  /\ p1 # None => price_str = p1
        /\ (p1 = None /\ p2 # None) => price_str = p2
        /\ (p1 = None /\ p2 = None /\ p3 # None) => price_str = p3
        /\ (p1 = None /\ p2 = None /\ p3 = None) => price_str = None

(* A fragment that the primary and the tertiary matcher both match, with    *)
(* different values, after its second call: the primary value came back.    *)
C5_Witness ==
  /\ calls = 2
  /\ abp_match(html_content) # None
  /\ json_match(html_content) # None
  /\ abp_match(html_content) # json_match(html_content)
  /\ esth_match(html_content) = None
  /\ price_str = abp_match(html_content)

-----------------------------------------------------------------------------
(* Properties of what a run records, under Spec *)

LastOutcome == IF outcomes = <<>> THEN "none" ELSE outcomes[Len(outcomes)]

SheetCalled == sheet_call # NotCalled

HistoryWritten == history # history0

(* The cells of column C that the sheet call wrote *)
WrittenCells ==
  {i \in 1..Len(sheet_call.col_c) : sheet_call.col_c[i] # <<>>}

(* The rows that the run added to the history file *)
AddedRows ==
  IF history = None THEN <<>>
  ELSE IF history0 = None THEN history[1]
  ELSE SubSeq(history[1], Len(history0[1]) + 1, Len(history[1]))

(* C11: a run records a price (calls update_google_sheet, writes the        *)
(* history file) only after an attempt of it ended in Success, and what it  *)
(* records is the string extracted in that attempt: the sheet cell is "$"   *)
(* and that string, the history price is that string without its commas.    *)
(* A run that ends in failure has not called update_google_sheet and has    *)
(* left the history file as it found it.                                    *)
C11_NoFabricatedPrice ==
  /\ (SheetCalled \/ HistoryWritten) =>
       /\ LastOutcome = "Success"
       /\ price_str = extract_price(html_content)
       /\ price_str # None
       /\ \A i \in WrittenCells : sheet_call.col_c[i] = <<"DOL">> \o price_str[1]
       /\ \A k \in 1..Len(AddedRows) :
            AddedRows[k] # HistoryHeader =>
              AddedRows[k][2] = SelectSeq(price_str[1], LAMBDA c : c # ",")
  /\ pc = "failed" => (~SheetCalled /\ ~HistoryWritten)
  /\ ~(\E k \in 1..Len(outcomes) : outcomes[k] = "Success") =>
       (~SheetCalled /\ ~HistoryWritten)

(* A run whose first attempt failed and whose second succeeded has written  *)
(* the sheet cell and the history row from the second attempt's string.     *)
C11_Witness ==
  /\ pc = "saved"
  /\ outcomes = <<"Blocked", "Success">>
  /\ sheet_call.result = "updated"
  /\ WrittenCells # {}
  /\ HistoryWritten
  /\ price_str = Some(<<"2", ",", "0">>)

-----------------------------------------------------------------------------
(* Properties of the extracted string, under SpecExtract *)

Digits == {"0", "1", "2"}

DigitValue(c) == IF c = "0" THEN 0 ELSE IF c = "1" THEN 1 ELSE 2

(* The integer that a string of digits is the decimal text of *)
RECURSIVE ParseInt(_)
ParseInt(str) ==
  IF str = <<>> THEN 0
  ELSE 10 * ParseInt(SubSeq(str, 1, Len(str) - 1)) + DigitValue(str[Len(str)])

IsPositiveInteger(str) ==
  /\ str # <<>>
  /\ \A i \in 1..Len(str) : str[i] \in Digits
  /\ ParseInt(str) > 0

(* C12: every string that extract_price returns, with its commas removed as *)
(* main removes them for the history row, is a non-empty string of digits   *)
(* that is the text of an integer greater than 0.                           *)
C12_RoundTrip ==
  (calls >= 1 /\ price_str # None) =>
    IsPositiveInteger(StripCommas(price_str[1]))

-----------------------------------------------------------------------------
(* Properties of errors and waits in the retry loop, under Spec *)

Outcomes == Failures \cup {"Success"}

(* The last fetch raised: in requests.post, or while the body was read *)
FetchRaised == outcomes # <<>> /\ response.error # "none"

(* C13: an error raised in an attempt makes that attempt a failed one and   *)
(* nothing more.  No exception leaves run_scrape or main, every attempt     *)
(* ends in one of the five outcomes, an attempt whose fetch raised ends in  *)
(* TransientError with no price, after it the loop goes on to the wait and  *)
(* the next attempt if one remains, and a run is reported as failed only    *)
(* after max_retries failed attempts.                                       *)
C13_FailuresContained ==
  /\ pc # "crashed"
  /\ \A k \in 1..Len(outcomes) : outcomes[k] \in Outcomes
  /\ FetchRaised =>
       /\ LastOutcome = "TransientError"
       /\ price_str = None
       /\ Len(outcomes) < max_retries => pc \in {"backoff", "fetch"}
       /\ Len(outcomes) = max_retries => pc \in {"after_loop", "failed"}
  /\ pc = "failed" => (AllFailed /\ Len(outcomes) = max_retries)

(* A run whose first two fetches raised and whose third found the price *)
C13_Witness ==
  /\ pc = "saved"
  /\ outcomes = <<"TransientError", "TransientError", "Success">>
  /\ Truthy(price_str)

Fetches == Len(SelectSeq(events, LAMBDA e : e = "fetch"))

Waits == Len(SelectSeq(events, LAMBDA e : e = "wait"))

(* C14: the events of a run are fetch, wait, fetch, ... in strict           *)
(* alternation starting with a fetch, one fetch per attempt; a fetch that   *)
(* is not the first is about to be dispatched only right after one wait,    *)
(* and that wait is an integer from 20 to 60; when the loop is over the     *)
(* last event is a fetch, so n attempts have made n - 1 waits.              *)
C14_BackoffOrdering ==
  /\ \A i \in 1..Len(events) :
       events[i] = (IF i % 2 = 1 THEN "fetch" ELSE "wait")
  /\ Fetches = Len(outcomes)
  /\ (pc = "fetch" /\ events = <<>>) => wait_time = 0
  /\ (pc = "fetch" /\ events # <<>>) =>
       /\ events[Len(events)] = "wait"
       /\ wait_time \in WaitMin..WaitMax
       /\ Waits = Fetches
  /\ pc = "backoff" => (events[Len(events)] = "fetch" /\ Waits = Fetches - 1)
  /\ LoopOver =>
       /\ events[Len(events)] = "fetch"
       /\ Waits = Fetches - 1

(* The third attempt about to be dispatched, after the longest wait *)
C14_Witness ==
  /\ pc = "fetch"
  /\ events = <<"fetch", "wait", "fetch", "wait">>
  /\ wait_time = WaitMax

-----------------------------------------------------------------------------
(* Properties of the boundary, under SpecScrape *)

(* The Content-Type header names no boundary, or an empty one *)
NoBoundaryToken(r) == r.ctype = None \/ r.ctype = Some(<<>>)

(* C15: an attempt on a response whose Content-Type gives no non-empty      *)
(* boundary (no boundary= parameter, or boundary= with nothing after it)    *)
(* ends in NoContent with no part selected and no price, also when the      *)
(* body cut at bare dashes would hold a marker part with a price.           *)
C15_MissingBoundary ==
  (Returned /\ response.error = "none" /\ response.status = 200
     /\ ~HeaderSignal(response) /\ ~BodySignal(response)
     /\ NoBoundaryToken(response)
     /\ (response.ctype # None => HasPricedPage(response)))
  => (outcomes = <<"NoContent">> /\ html_content = <<>> /\ price_str = None)

-----------------------------------------------------------------------------
(* Termination of a run, under SpecLive *)

(* The loop was left by the break, on an attempt that ended in Success *)
Succeeded == LoopOver /\ LastOutcome = "Success"

(* The loop ran out of attempts, all of them failed *)
Exhausted == LoopOver /\ AllFailed /\ Len(outcomes) = max_retries

(* C16: when every fetch returns or raises and every wait ends, a run       *)
(* reaches Succeeded or Exhausted and stays there, never both; and every    *)
(* attempt that was dispatched has ended in exactly one outcome, one of     *)
(* Success, Blocked, NoContent, NoMatch, TransientError.                    *)
C16_Termination ==
  /\ <>[](Succeeded \/ Exhausted)
  /\ [](~(Succeeded /\ Exhausted))
  /\ [](/\ Len(outcomes) = Fetches
        /\ \A k \in 1..Len(outcomes) : outcomes[k] \in Outcomes)

(* A run that ended Exhausted after three attempts of three failure kinds *)
C16_Witness ==
  /\ pc = "failed"
  /\ Exhausted
  /\ outcomes = <<"NoMatch", "Blocked", "NoContent">>

-----------------------------------------------------------------------------
(* Properties of the sheet update and the local backup, under Spec *)

(* The sheet call had credentials and met no exception *)
SheetReachable == sheet_call.creds /\ sheet_call.fault = "none"

(* The rows of the sheet, after the call, whose column A holds today's date *)
(* and whose column C holds "$" and the price                               *)
DatedPriceRows ==
  {i \in 1..Len(sheet_call.col_a) :
     /\ Contains(sheet_call.col_a[i], "TODAY")
     /\ sheet_call.col_c[i] = <<"DOL">> \o PriceText(price_str)}

(* C17: after a successful run with credentials set and the sheet           *)
(* reachable, the sheet has a row for today's date whose price cell is "$"  *)
(* and the extracted price, whether or not it had a row for today before.   *)
C17_SheetUpsert ==
  (pc = "saved" /\ SheetReachable) => DatedPriceRows # {}

SheetResults == {"skipped", "error", "norow", "updated"}

(* The history file as the run found it, with the header if it was absent *)
HistoryBefore == IF history0 = None THEN <<HistoryHeader>> ELSE history0[1]

(* C18: a successful run appends its history row whatever became of the     *)
(* sheet update: skipped for missing credentials, ended by an exception,    *)
(* no row for today's date, or done.  After every call of                   *)
(* update_google_sheet the run goes on to the append, and the file then     *)
(* holds what it held before and exactly one new row, with the price.       *)
C18_BestEffortSheet ==
  /\ SheetCalled => pc = "saved"
  /\ pc = "saved" =>
       /\ sheet_call.result \in SheetResults
       /\ history # None
       /\ Len(history[1]) = Len(HistoryBefore) + 1
       /\ SubSeq(history[1], 1, Len(HistoryBefore)) = HistoryBefore
       /\ history[1][Len(history[1])][2] =
            SelectSeq(price_str[1], LAMBDA c : c # ",")

(* The sheet update raised in update_cell, and the row is in the file *)
C18_Witness ==
  /\ pc = "saved"
  /\ sheet_call.result = "error"
  /\ sheet_call.fault = "update"
  /\ history0 # None
  /\ Len(history[1]) = Len(history0[1]) + 1

-----------------------------------------------------------------------------
(* Properties of the history file over several runs, under SpecRuns *)

(* The prices of the successful runs so far, in run order *)
Successes == SelectSeq(runs, LAMBDA p : p # None)

(* The number of the k-th successful run *)
SuccessfulRun(k) ==
  CHOOSE i \in 1..Len(runs) :
    /\ runs[i] # None
    /\ Cardinality({j \in 1..i : runs[j] # None}) = k

HistoryShape ==
  /\ Successes = <<>> => history = None
  /\ Successes # <<>> =>
       /\ history # None
       /\ Len(history[1]) = Len(Successes) + 1
       /\ history[1][1] = HistoryHeader
       /\ \A k \in 1..Len(Successes) :
            LET row == history[1][k + 1]
            IN  /\ row # HistoryHeader
                /\ Len(row[1]) = SuccessfulRun(k)
                /\ row[2] = SelectSeq(Successes[k][1], LAMBDA c : c # ",")
                /\ row[3] = <<"REDFIN_URL">>

HistoryKept ==
  history # None =>
    /\ history' # None
    /\ Len(history'[1]) >= Len(history[1])
    /\ SubSeq(history'[1], 1, Len(history[1])) = history[1]

(* C19: over any sequence of runs that starts without a history file, the   *)
(* file is absent as long as no run has succeeded; after that it is one     *)
(* header row (Timestamp, Price, URL) followed by one data row for each     *)
(* successful run, in run order, whose price is the run's extracted string  *)
(* without its commas; and no step changes or removes a row that is there.  *)
C19_HistoryShape == []HistoryShape /\ [][HistoryKept]_vars

(* Two successful runs: one header, the two rows in run order *)
C19_Witness ==
  /\ runs = <<Some(<<"2", ",", "0">>), Some(<<"1">>)>>
  /\ history =
       Some(<<HistoryHeader,
              <<<<"T">>, <<"2", "0">>, <<"REDFIN_URL">>>>,
              <<<<"T", "T">>, <<"1">>, <<"REDFIN_URL">>>>>>)

====
